---- MODULE Spec2Model ----
(***************************************************************************)
(* Contact form controller of src/script.js (initializeContactForm):       *)
(* three fields validated on blur and on submit, a simulated submission    *)
(* driven by a 2000 ms timer, and success notifications removed by a       *)
(* 5000 ms timer or by a click on their close button.                      *)
(*                                                                         *)
(* Strings are sequences of one-character strings, so that trim() and the  *)
(* e-mail regular expression are computed character by character.          *)
(***************************************************************************)
EXTENDS Integers, Sequences, FiniteSets, TLC

VARIABLES
    value,          \* value[f]: current text of field f
    display,        \* display[f]: the error element and border of field f
    lastValidated,  \* history: the value field f held when last validated
    btnDisabled,    \* submitButton.disabled
    btnLabel,       \* submitButton.innerHTML
    submitTimers,   \* pending 2000 ms timers, each holding its originalText
    inDom,          \* notifications attached to document.body
    timers,         \* notifications whose 5000 ms timer is still pending
    styleInjected,  \* whether showSuccessMessage has appended its <style>
    event,          \* history: the event handled by the last step
    input,          \* argument of a direct validator call (ValidatorSpec)
    result          \* what that call returned (ValidatorSpec)

formVars == <<value, display, lastValidated, btnDisabled, btnLabel,
              submitTimers, inDom, timers, styleInjected, event>>
callVars == <<input, result>>
vars == <<value, display, lastValidated, btnDisabled, btnLabel,
          submitTimers, inDom, timers, styleInjected, event, input, result>>

-----------------------------------------------------------------------------
(* Bounds of the model *)

\* notifications that may be alive (attached or with a pending timer) at once
MaxNotifs == 2
\* longest string enumerated over the whole alphabet
MaxLen == 5
\* longest run of letters in the padded inputs (crosses the threshold of 10)
MaxBody == 11
\* longest leading / trailing whitespace padding of the padded inputs
MaxPad == 1

(* Constants of the program *)
MinNameLen == 2
MinMessageLen == 10

-----------------------------------------------------------------------------
(* Strings *)

\* what String.prototype.trim strips and what \s matches
WhiteSpace == {" ", "\t", "\n"}

RECURSIVE trimStart(_)
trimStart(s) ==
    IF s # <<>> /\ Head(s) \in WhiteSpace THEN trimStart(Tail(s)) ELSE s

RECURSIVE trimEnd(_)
trimEnd(s) ==
    IF s # <<>> /\ s[Len(s)] \in WhiteSpace
    THEN trimEnd(SubSeq(s, 1, Len(s) - 1))
    ELSE s

\* a validator that reads field.value without trimming it
trimMissing(s) == s

trim(s) == trimEnd(trimStart(s))

\* the character class [^\s@]
classNotSpaceAt(c) == c \notin WhiteSpace /\ c # "@"

\* s[i..j] is a run of [^\s@]
runOfClass(s, i, j) == \A k \in i..j : classNotSpaceAt(s[k])

\* the expression written with \S in place of [^\s@]
emailRegexLoose(s) ==
    \E i \in 1..Len(s), j \in 1..Len(s) :
        /\ 1 < i /\ i + 1 < j /\ j < Len(s)
        /\ s[i] = "@" /\ s[j] = "."
        /\ \A k \in 1..Len(s) : k \notin {i, j} => s[k] \notin WhiteSpace

\* /^[^\s@]+@[^\s@]+\.[^\s@]+$/.test(s): some '@' at i and some '.' at j split
\* s into three non-empty runs of [^\s@]
emailRegex(s) ==
    \E i \in 1..Len(s), j \in 1..Len(s) :
        /\ 1 < i /\ i + 1 < j /\ j < Len(s)
        /\ s[i] = "@" /\ s[j] = "."
        /\ runOfClass(s, 1, i - 1)
        /\ runOfClass(s, i + 1, j - 1)
        /\ runOfClass(s, j + 1, Len(s))

-----------------------------------------------------------------------------
(* Validators: the boolean each returns and the message it hands showError *)

NameReason == "Name must be at least 2 characters long"
EmailReason == "Please enter a valid email address"
MessageReason == "Message must be at least 10 characters long"
NoReason == ""

Valid == [valid |-> TRUE, reason |-> NoReason]
Invalid(reason) == [valid |-> FALSE, reason |-> reason]

validateName(v) ==
    IF Len(trim(v)) < MinNameLen THEN Invalid(NameReason) ELSE Valid

validateEmail(v) ==
    IF ~emailRegex(trim(v)) THEN Invalid(EmailReason) ELSE Valid

validateMessage(v) ==
    IF Len(trim(v)) < MinMessageLen THEN Invalid(MessageReason) ELSE Valid

Fields == {"name", "email", "message"}

\* the validator bound to field f
validateField(f, v) ==
    CASE f = "name" -> validateName(v)
      [] f = "email" -> validateEmail(v)
      [] f = "message" -> validateMessage(v)

-----------------------------------------------------------------------------
(* Error display *)

InitialDisplay == [show |-> FALSE, text |-> NoReason, border |-> "stylesheet"]

showError(d, message) ==
    [show |-> TRUE, text |-> message, border |-> "#ff4757"]

\* hideError that forgets to remove the 'show' class
hideErrorKeepsShow(d) == [d EXCEPT !.border = "rgba(255, 255, 255, 0.1)"]

\* the class is removed and the border reset; textContent is left as it was
hideError(d) ==
    [d EXCEPT !.show = FALSE, !.border = "rgba(255, 255, 255, 0.1)"]

\* the tail of each validator: showError on failure, hideError on success
render(d, r) == IF r.valid THEN hideError(d) ELSE showError(d, r.reason)

\* validateForm that stops at the first failing validator (a && b && c on calls)
validateFormShortCircuit(vals) ==
    LET nameValid == validateName(vals["name"]).valid
        emailValid == validateEmail(vals["email"]).valid
        messageValid == validateMessage(vals["message"]).valid
    IN  [ran |-> {"name"} \cup (IF nameValid THEN {"email"} ELSE {})
                          \cup (IF nameValid /\ emailValid
                                THEN {"message"} ELSE {}),
         ok |-> nameValid /\ emailValid /\ messageValid]

\* validateForm that reports success whatever the validators returned
validateFormAccepts(vals) ==
    [ran |-> {"name", "email", "message"}, ok |-> TRUE]

\* validateForm: the three validators are called first, then their results
\* are combined; ran is the set of fields whose validator was called
validateForm(vals) ==
    LET nameValid == validateName(vals["name"]).valid
        emailValid == validateEmail(vals["email"]).valid
        messageValid == validateMessage(vals["message"]).valid
    IN  [ran |-> {"name", "email", "message"},
         ok |-> nameValid /\ emailValid /\ messageValid]

-----------------------------------------------------------------------------
(* The form *)

\* what the user may type into each field
NameValues == { <<>>, <<"J">>, <<"J", "o">> }
EmailValues == { <<>>, <<"b", "a", "d">>, <<"a", "@", "b", ".", "c", "o">> }
MessageValues ==
    { <<>>,
      <<"s", "h", "o", "r", "t">>,
      <<"H", "e", "l", "l", "o", " ", "t", "h", "e", "r", "e">> }

FieldValues(f) ==
    CASE f = "name" -> NameValues
      [] f = "email" -> EmailValues
      [] f = "message" -> MessageValues

\* lastValidated[f] is <<>> before the first validation of f, then <<v>>
NeverValidated == <<>>
\* the label the page gives the button (the page itself is not in src/)
OriginalLabel == "originalText"
SendingLabel == "<i class=\"fas fa-spinner fa-spin\"></i> Sending..."

Slots == 1..MaxNotifs
Alive == inDom \cup timers

\* attached: whether the notification a timeout or a close is about was in
\* the document when the handler ran
Event(kind, attached) == [kind |-> kind, attached |-> attached]

\* form.reset() without effect
formResetMissing(vals) == vals

\* form.reset(): every field back to its default value, taken to be the
\* empty string (the page gives the fields no initial text)
formReset(vals) == [f \in Fields |-> <<>>]

\* a dismissal written as document.querySelector('.success-notification').remove()
removeFirstFound(dom, n) ==
    IF dom = {} THEN dom
    ELSE dom \ {CHOOSE m \in dom : \A k \in dom : m <= k}

\* notification.remove(): detaches n, and does nothing when n is detached
remove(dom, n) == dom \ {n}

\* a form that can be submitted whatever the state of its button
submitAlways == TRUE

\* the browser dispatches no submit event through a disabled submit button
submitEnabled == ~btnDisabled

FormInit ==
    /\ value = [f \in Fields |-> <<>>]
    /\ display = [f \in Fields |-> InitialDisplay]
    /\ lastValidated = [f \in Fields |-> NeverValidated]
    /\ btnDisabled = FALSE
    /\ btnLabel = OriginalLabel
    /\ submitTimers = <<>>
    /\ inDom = {}
    /\ timers = {}
    /\ styleInjected = FALSE
    /\ event = Event("load", FALSE)

NoInput == <<>>
NoResult == [fn |-> "none", valid |-> FALSE, reason |-> NoReason]

Init ==
    /\ FormInit
    /\ input = NoInput
    /\ result = NoResult

\* the user types v into field f; no listener runs
Edit(f, v) ==
    /\ v # value[f]
    /\ value' = [value EXCEPT ![f] = v]
    /\ event' = Event("edit", FALSE)
    /\ UNCHANGED <<display, lastValidated, btnDisabled, btnLabel,
                   submitTimers, inDom, timers, styleInjected>>
    /\ UNCHANGED callVars

\* blur listener of field f: its validator runs on the current value
Blur(f) ==
    /\ display' = [display EXCEPT
                     ![f] = render(display[f], validateField(f, value[f]))]
    /\ lastValidated' = [lastValidated EXCEPT ![f] = <<value[f]>>]
    /\ event' = Event("blur", FALSE)
    /\ UNCHANGED <<value, btnDisabled, btnLabel, submitTimers, inDom, timers,
                   styleInjected>>
    /\ UNCHANGED callVars

\* handleFormSubmission up to setTimeout: the loading state is shown and the
\* timer's closure keeps the label read just before
handleFormSubmission ==
    /\ btnLabel' = SendingLabel
    /\ btnDisabled' = TRUE
    /\ submitTimers' = Append(submitTimers, btnLabel)

\* submit listener: validateForm, then handleFormSubmission when it passed.
\* The listener reads no submission state. (The count of notifications and
\* timers alive is kept under MaxNotifs, the bound of the model.)
SubmitListener ==
    /\ LET r == validateForm(value) IN
       /\ display' = [f \in Fields |->
                        IF f \in r.ran
                        THEN render(display[f], validateField(f, value[f]))
                        ELSE display[f]]
       /\ lastValidated' = [f \in Fields |->
                              IF f \in r.ran THEN <<value[f]>>
                              ELSE lastValidated[f]]
       /\ IF r.ok
          THEN /\ Len(submitTimers) + Cardinality(Alive) < MaxNotifs
               /\ handleFormSubmission
          ELSE UNCHANGED <<btnDisabled, btnLabel, submitTimers>>
    /\ event' = Event("submit", FALSE)
    /\ UNCHANGED <<value, inDom, timers, styleInjected>>
    /\ UNCHANGED callVars

\* a submit event reaches the listener
Submit == submitEnabled /\ SubmitListener

\* showSuccessMessage that appends nothing
showNothing == UNCHANGED <<inDom, timers, styleInjected>>

\* showSuccessMessage: a new notification is appended to the body, with its
\* 5000 ms timer and its close listener; nothing already there is touched
showSuccessMessage ==
    \E n \in Slots \ Alive :
        /\ \A m \in Slots \ Alive : n <= m
        /\ inDom' = inDom \cup {n}
        /\ timers' = timers \cup {n}
        /\ styleInjected' = TRUE

\* the 2000 ms timer fires: notification, form reset, button restored
SubmitTimerFires ==
    /\ submitTimers # <<>>
    /\ showSuccessMessage
    /\ value' = formReset(value)
    /\ btnLabel' = Head(submitTimers)
    /\ btnDisabled' = FALSE
    /\ submitTimers' = Tail(submitTimers)
    /\ event' = Event("complete", FALSE)
    /\ UNCHANGED <<display, lastValidated>>
    /\ UNCHANGED callVars

\* the 5000 ms timer of notification n fires
AutoDismiss(n) ==
    /\ n \in timers
    /\ inDom' = IF n \in inDom THEN remove(inDom, n) ELSE inDom
    /\ timers' = timers \ {n}
    /\ event' = Event("timeout", n \in inDom)
    /\ UNCHANGED <<value, display, lastValidated, btnDisabled, btnLabel,
                   submitTimers, styleInjected>>
    /\ UNCHANGED callVars

\* click listener of the close button of notification n
CloseClick(n) ==
    /\ n \in Alive
    /\ inDom' = remove(inDom, n)
    /\ event' = Event("close", n \in inDom)
    /\ UNCHANGED <<value, display, lastValidated, btnDisabled, btnLabel,
                   submitTimers, timers, styleInjected>>
    /\ UNCHANGED callVars

Next ==
    \/ \E f \in Fields : \E v \in FieldValues(f) : Edit(f, v)
    \/ \E f \in Fields : Blur(f)
    \/ Submit
    \/ SubmitTimerFires
    \/ \E n \in Slots : AutoDismiss(n)
    \/ \E n \in Slots : CloseClick(n)

Spec == Init /\ [][Next]_vars

\* both kinds of timer are fire-once callbacks the event loop always runs
FairSpec ==
    /\ Spec
    /\ WF_vars(SubmitTimerFires)
    /\ \A n \in Slots : WF_vars(AutoDismiss(n))

\* Idle / Submitting / Succeeded, read off the timer and the notifications
SubmissionState ==
    IF submitTimers # <<>> THEN "Submitting"
    ELSE IF inDom # {} THEN "Succeeded"
    ELSE "Idle"

-----------------------------------------------------------------------------
(* The validators called on their own, on every string of a bounded set *)

Alphabet == {"a", " ", "@", "."}

\* every string over Alphabet of length at most MaxLen
ShortInputs == UNION { [1..k -> Alphabet] : k \in 0..MaxLen }

Pad(c, k) == [i \in 1..k |-> c]

\* n letters; with sp, the second one is a space inside the text
Body(n, sp) == [i \in 1..n |-> IF sp /\ i = 2 /\ n > 2 THEN " " ELSE "a"]

\* runs of letters around both length thresholds, padded with whitespace
PaddedInputs ==
    { Pad(c, l) \o Body(n, sp) \o Pad(c, r) :
        c \in {" ", "\t"}, l \in 0..MaxPad, r \in 0..MaxPad,
        n \in 0..MaxBody, sp \in BOOLEAN }

\* the strings the documentation names
ExampleInputs ==
    { <<"a", "@", "b", ".", "c", "o">>,
      <<"a", "@", "b">>,
      <<"a", " ", "b", "@", "c", ".", "c", "o", "m">>,
      <<>>,
      <<"j", "o", "@", "e", "x", "a", "m", "p", "l", "e", ".", "c", "o", "m">>,
      <<" ", "a", "@", "b", ".", "c", "o", "\n">>,
      <<"a", "@", "@", "b", ".", "c", "o">> }

Inputs == ShortInputs \cup PaddedInputs \cup ExampleInputs

Returned(fn, r) == [fn |-> fn, valid |-> r.valid, reason |-> r.reason]

ValidatorInit ==
    /\ FormInit
    /\ input \in Inputs
    /\ result = NoResult

CallValidateName ==
    /\ result' = Returned("validateName", validateName(input))
    /\ UNCHANGED input
    /\ UNCHANGED formVars

CallValidateEmail ==
    /\ result' = Returned("validateEmail", validateEmail(input))
    /\ UNCHANGED input
    /\ UNCHANGED formVars

CallValidateMessage ==
    /\ result' = Returned("validateMessage", validateMessage(input))
    /\ UNCHANGED input
    /\ UNCHANGED formVars

ValidatorNext ==
    \/ CallValidateName
    \/ CallValidateEmail
    \/ CallValidateMessage

ValidatorSpec == ValidatorInit /\ [][ValidatorNext]_vars

-----------------------------------------------------------------------------
(* Vocabulary of the properties, defined without trim and emailRegex *)

IsSpace(c) == c \in WhiteSpace

\* positions of s holding a character that is not whitespace
Inked(s) == { i \in 1..Len(s) : ~IsSpace(s[i]) }

Lowest(S) == CHOOSE i \in S : \A j \in S : i <= j
Highest(S) == CHOOSE i \in S : \A j \in S : j <= i

\* length of s without its leading and trailing whitespace
TrimmedLen(s) ==
    IF Inked(s) = {} THEN 0 ELSE Highest(Inked(s)) - Lowest(Inked(s)) + 1

\* s without its leading and trailing whitespace
Trimmed(s) ==
    IF Inked(s) = {} THEN <<>>
    ELSE SubSeq(s, Lowest(Inked(s)), Highest(Inked(s)))

Places(s, c) == { i \in 1..Len(s) : s[i] = c }

\* non-space+ '@' non-space+ '.' non-space+, as the documentation words it:
\* a segment may hold any character that is not whitespace
MatchesDocumentedPattern(s) ==
    \E i \in Places(s, "@"), j \in Places(s, ".") :
        /\ 1 < i /\ i + 1 < j /\ j < Len(s)
        /\ \A k \in 1..Len(s) : k \notin {i, j} => ~IsSpace(s[k])

\* one '@' only, not first, no whitespace, and after the '@' a '.' that is
\* neither next to it nor last
WellFormedAddress(s) ==
    /\ Inked(s) = 1..Len(s)
    /\ Cardinality(Places(s, "@")) = 1
    /\ LET at == Lowest(Places(s, "@")) IN
       /\ at > 1
       /\ \E j \in Places(s, ".") : at + 1 < j /\ j < Len(s)

\* C8 as stated: validateEmail returns Valid iff the value itself matches
\* non-space+ '@' non-space+ '.' non-space+, else Invalid with the reason
C8_AsStated ==
    result.fn = "validateEmail" =>
        /\ result.valid <=> MatchesDocumentedPattern(input)
        /\ ~result.valid => result.reason = EmailReason

\* C8: validateEmail returns Valid iff the value, once its leading and
\* trailing whitespace is trimmed, is one or more characters that are neither
\* whitespace nor '@', then '@', then one or more such characters, then '.',
\* then one or more such characters; otherwise it returns Invalid with the
\* reason "Please enter a valid email address". "a@b.co" is Valid; "a@b",
\* "a b@c.com" and "" are Invalid.
C8_ValidateEmail ==
    result.fn = "validateEmail" =>
        /\ result.valid <=> WellFormedAddress(Trimmed(input))
        /\ ~result.valid => result.reason = EmailReason
        /\ input = <<"a", "@", "b", ".", "c", "o">> => result.valid
        /\ input \in { <<"a", "@", "b">>, <<>>,
                       <<"a", " ", "b", "@", "c", ".", "c", "o", "m">> }
              => ~result.valid

\* an address accepted only because it is trimmed first
C8_Witness ==
    /\ result.fn = "validateEmail"
    /\ result.valid
    /\ input = <<" ", "a", "@", "b", ".", "c", "o", "\n">>

\* C9: validateName returns Invalid iff the trimmed length is < 2, and
\* validateMessage returns Invalid iff the trimmed length is < 10; input made
\* of whitespace only is Invalid for both.
C9_LengthThresholds ==
    /\ result.fn = "validateName" =>
          /\ ~result.valid <=> TrimmedLen(input) < 2
          /\ ~result.valid => result.reason = NameReason
    /\ result.fn = "validateMessage" =>
          /\ ~result.valid <=> TrimmedLen(input) < 10
          /\ ~result.valid => result.reason = MessageReason
    /\ result.fn \in {"validateName", "validateMessage"} /\ Inked(input) = {}
          => ~result.valid

\* a message of 12 characters refused because only 9 remain once trimmed
C9_Witness ==
    /\ result.fn = "validateMessage"
    /\ ~result.valid
    /\ Len(input) > 10
    /\ TrimmedLen(input) = 9

-----------------------------------------------------------------------------
(* Properties of the form *)

FieldValid(f) == validateField(f, value[f]).valid
AllValid == \A f \in Fields : FieldValid(f)

\* the step is a submit event on a form with an Invalid field
RejectedSubmit == event'.kind = "submit" /\ ~AllValid
\* the step is a submit event on a form whose three fields are Valid
AcceptedSubmit == event'.kind = "submit" /\ AllValid
\* the step is the firing of a submission timer
Completion == event'.kind = "complete"

Step(a, b) == SubmissionState = a /\ SubmissionState' = b

NoSubmissionStarted ==
    UNCHANGED <<value, submitTimers, btnDisabled, btnLabel, inDom, timers>>

\* C1 as stated: a submit event with an Invalid field leaves SubmissionState
\* at Idle, starts no timer, does not disable the control, emits no
\* notification and changes no field value
C1_AsStated ==
    [][RejectedSubmit =>
          /\ SubmissionState' = "Idle"
          /\ NoSubmissionStarted]_vars

\* C1: a submit event with at least one Invalid field starts no submission:
\* SubmissionState is left as it was (Idle, or Succeeded while the
\* notification of an earlier submission is still visible), no submission
\* timer is started, the submit control is not disabled, no notification is
\* emitted and no field value changes; only the error displays change.
C1_SubmitGate ==
    [][RejectedSubmit =>
          /\ SubmissionState' = SubmissionState
          /\ SubmissionState' \in {"Idle", "Succeeded"}
          /\ NoSubmissionStarted
          /\ styleInjected' = styleInjected]_vars

\* a refused submit: the name is fine, another field is flagged
C1_Witness ==
    /\ event.kind = "submit"
    /\ ~btnDisabled
    /\ FieldValid("name")
    /\ \E f \in Fields : display[f].show /\ ~FieldValid(f)

CompletionFacts ==
    /\ Step("Submitting", "Succeeded")
    /\ value' = [f \in Fields |-> <<>>]
    /\ inDom \subseteq inDom'
    /\ Cardinality(inDom' \ inDom) = 1
    /\ ~btnDisabled'
    /\ btnLabel' = OriginalLabel

\* C2 as stated: every accepted submission moves Idle -> Submitting, and the
\* firing of its timer moves Submitting -> Succeeded, clearing the fields,
\* emitting one notification and restoring the control
C2_AsStated ==
    [][/\ AcceptedSubmit => Step("Idle", "Submitting")
       /\ Completion => CompletionFacts
       /\ SubmissionState = "Submitting" /\ SubmissionState' # "Submitting"
             => Completion]_vars

\* C2: every accepted submission moves the state to Submitting, from Idle or,
\* while the notification of an earlier submission is still visible, from
\* Succeeded; when its timer fires the state moves Submitting -> Succeeded
\* with, in that step, the three field values cleared whatever they hold,
\* exactly one notification emitted, and the control enabled with its
\* original label; Submitting is left by no other step.
C2_Submission ==
    [][/\ AcceptedSubmit =>
             /\ SubmissionState \in {"Idle", "Succeeded"}
             /\ SubmissionState' = "Submitting"
             /\ btnDisabled' /\ btnLabel' = SendingLabel
       /\ Completion => CompletionFacts
       /\ SubmissionState = "Submitting" /\ SubmissionState' # "Submitting"
             => Completion]_vars

\* a completion that cleared a name typed, and validated, while Submitting
C2_Witness ==
    /\ event.kind = "complete"
    /\ lastValidated["name"] = << <<"J">> >>
    /\ \A f \in Fields : value[f] = <<>>
    /\ inDom # {}
    /\ ~btnDisabled

CycleStep ==
    \/ SubmissionState' = SubmissionState
    \/ Step("Idle", "Submitting")
    \/ Step("Submitting", "Succeeded")
    \/ Step("Succeeded", "Idle")

IdleAgain ==
    SubmissionState = "Idle" /\ ~btnDisabled /\ submitTimers = <<>>

\* C3 as stated: the only transitions are those of the cycle
\* Idle -> Submitting -> Succeeded -> Idle, and every state that is not Idle
\* is followed by one that is
C3_AsStated ==
    /\ [][CycleStep]_vars
    /\ (SubmissionState # "Idle") ~> IdleAgain

\* C3: the transitions are Idle -> Submitting, Submitting -> Succeeded,
\* Succeeded -> Idle (the last notification dismissed or expired) and
\* Succeeded -> Submitting (a submission accepted while a notification is
\* still visible), and no other. With both timers fair, every submission in
\* flight completes, every visible notification has its timer pending, and
\* the state is Idle again and again unless submissions keep being accepted.
C3_Lifecycle ==
    /\ [][CycleStep \/ Step("Succeeded", "Submitting")]_vars
    /\ (SubmissionState = "Submitting") ~> (SubmissionState = "Succeeded")
    /\ [](inDom \subseteq timers)
    /\ \/ []<>IdleAgain
       \/ []<><<AcceptedSubmit>>_vars

\* a submission in flight while an earlier notification is still visible
C3_Witness ==
    /\ SubmissionState = "Submitting"
    /\ inDom # {}

\* C4: at most one success notification is in the page at a time
C4_AtMostOneNotification == Cardinality(inDom) <= 1

\* C5: the error display of each field is the result of its most recent
\* validation: none before the first one, none after a validation that
\* returned Valid, and the validator's reason after one that returned Invalid.
C5_ErrorDisplay ==
    \A f \in Fields :
        IF lastValidated[f] = NeverValidated
        THEN display[f] = InitialDisplay
        ELSE LET r == validateField(f, lastValidated[f][1]) IN
             /\ display[f].show <=> ~r.valid
             /\ display[f].show => display[f].text = r.reason
             /\ display[f].border # "#ff4757" <=> r.valid

\* an error cleared by a re-validation, on a field the reset then emptied
C5_Witness ==
    \E f \in Fields :
        /\ event.kind = "complete"
        /\ lastValidated[f] # NeverValidated
        /\ ~display[f].show
        /\ display[f].text # NoReason
        /\ value[f] = <<>>

ReasonOf(f) ==
    CASE f = "name" -> "Name must be at least 2 characters long"
      [] f = "email" -> "Please enter a valid email address"
      [] f = "message" -> "Message must be at least 10 characters long"

\* C6: after a submit event all three validators have run on the current
\* values, every Invalid field shows its own reason and every Valid field
\* shows none, and the submission was started iff all three are Valid.
C6_ValidateForm ==
    event.kind = "submit" =>
        /\ \A f \in Fields :
              /\ lastValidated[f] = <<value[f]>>
              /\ display[f].show <=> ~FieldValid(f)
              /\ display[f].show => display[f].text = ReasonOf(f)
        /\ btnDisabled <=> AllValid
        /\ value["name"] = <<"J">> => display["name"].show
        /\ value["email"] = <<"b", "a", "d">> => display["email"].show
        /\ value["message"] = <<"s", "h", "o", "r", "t">>
              => display["message"].show

\* name "J", email "bad", message "short": three errors at once
C6_Witness ==
    /\ event.kind = "submit"
    /\ value["name"] = <<"J">>
    /\ value["email"] = <<"b", "a", "d">>
    /\ value["message"] = <<"s", "h", "o", "r", "t">>
    /\ \A f \in Fields : display[f].show
    /\ Cardinality({display[f].text : f \in Fields}) = 3

\* the step dismisses a notification that is no longer in the document
StaleDismissal ==
    event'.kind \in {"close", "timeout"} /\ ~event'.attached

\* C7: a dismissal of a notification that is no longer visible removes no
\* other notification, changes no field value or error display, leaves the
\* submit control and SubmissionState as they were.
C7_DismissIdempotent ==
    [][StaleDismissal =>
          /\ UNCHANGED <<inDom, value, display, btnDisabled, btnLabel,
                         submitTimers, styleInjected>>
          /\ SubmissionState' = SubmissionState]_vars

\* the timer of a closed notification fired while another one was visible
C7_Witness ==
    /\ event.kind = "timeout"
    /\ ~event.attached
    /\ inDom # {}

\* C10: the submit control is disabled exactly while a submission timer is
\* pending and at most one is; no submit event is accepted while Submitting;
\* the control is re-enabled only by the firing of the pending timer; and the
\* listener itself would accept a valid form while Submitting.
C10_OneInFlight ==
    /\ [](/\ btnDisabled <=> submitTimers # <<>>
          /\ Len(submitTimers) <= 1
          /\ btnDisabled <=> SubmissionState = "Submitting"
          /\ (/\ btnDisabled
              /\ AllValid
              /\ Len(submitTimers) + Cardinality(Alive) < MaxNotifs)
                => ENABLED SubmitListener)
    /\ [][/\ event'.kind = "submit" => ~btnDisabled
          /\ btnDisabled /\ ~btnDisabled' =>
                /\ Completion
                /\ Len(submitTimers') = Len(submitTimers) - 1]_vars

\* Submitting, with a valid form the listener would accept
C10_Witness ==
    /\ btnDisabled
    /\ Len(submitTimers) = 1
    /\ AllValid
    /\ Len(submitTimers) + Cardinality(Alive) < MaxNotifs

====
